---- MODULE Spec2Model ----
(***************************************************************************)
(* Model of sexyback3.js: the camera-driven control loop, the debounce     *)
(* timer, the ZeroMQ REQ control channel, the signal / catch handlers and  *)
(* the supervision of the ffmpeg (encoder) and ffplay (sink) processes.    *)
(*                                                                         *)
(* One step of the model is one run-to-completion turn of the Node event   *)
(* loop (a callback or the code between two awaits), or one step of the    *)
(* environment (a subprocess exits, time passes).  Time is kept in         *)
(* milliseconds and advances by TickMs.                                    *)
(***************************************************************************)
EXTENDS Integers, FiniteSets, Sequences, TLC

\* ------------------------------------------------------------ constants
\* Granularity of the model clock, in milliseconds.
TickMs == 50

\* await sleep(350), the warm-up before the control channel is connected.
WARMUP_MS == 350
\* CAM_POLL_MS, the sleep between two polls.
CAM_POLL_MS == 150
\* The delay of the debounce setTimeout.
DEBOUNCE_MS == 300

\* The most signal handlers the model lets wait for the socket at once.
MaxSigWaiting == 2

\* let stopTimer = null: no debounce timer is pending.
NoTimer == -1
\* No run of false readings is in progress.
NoRun == -1
\* process.exit has not been called.
NotExited == -1

\* The two gains the program commands: 0.0 and MUSIC_GAIN_ACTIVE.
Mute == "mute"
MUSIC_GAIN_ACTIVE == "active"

\* No command was issued in this step.
NoCmd == [who |-> "none", vol |-> "none", overlap |-> FALSE]
\* No command is awaiting its reply.
NoInflight == [who |-> "none", vol |-> "none"]
\* stopPipeline did not run in this step.
NoStop == [called |-> FALSE, streams |-> FALSE]
\* The step handled no reading and left the debounce timer alone.
NoLoopEv == [polled |-> FALSE, prev |-> FALSE, cur |-> FALSE, timer |-> "none"]

Max(a, b) == IF a > b THEN a ELSE b
Min(a, b) == IF a < b THEN a ELSE b

\* ------------------------------------------------------------ state
VARIABLES
    procFfmpeg,     \* the global handle: "null" or "held"
    procFfplay,     \* the global handle: "null" or "held"
    ffmpegKilled,   \* procFfmpeg.killed
    stopping,       \* the global flag
    ffmpegProc,     \* the encoder: "none","running","failed","errored","exited","closed"
    ffplayProc,     \* the sink: "none","running","failed","errored","exited","closed"
    zmqSock,        \* "null" (no socket), "idle", "busy" (a request awaits its reply)
    inflight,       \* the caller and the gain of the request awaiting its reply
    busySend,       \* what zmqSock.send does on a busy socket: "reject" or "wait"
    sendQueue,      \* the sends waiting for the socket, oldest first
    mixerGain,      \* the gain the mixer last applied (volume@mus)
    mainPc,         \* where main() is suspended
    camWasActive,   \* main's local
    active,         \* main's local: the last reading
    stopTimer,      \* ms until the debounce timer fires, or NoTimer
    sleepLeft,      \* ms until main's pending sleep resolves
    exitCode,       \* NotExited, or the code given to process.exit
    falseFor,       \* ms since the first reading of the current run of false readings
    cmdEv,          \* the setMusicVolume call that reached zmqSock.send in this step
    killEv,         \* the kill("SIGTERM") calls of this step
    stopEv,         \* the stopPipeline call of this step
    probeEv,        \* isWebcamInUse was started in this step
    loopEv          \* the reading this step handled and what it did to the timer

sockVars == <<zmqSock, inflight, busySend, sendQueue>>
supVars == <<procFfmpeg, procFfplay, ffmpegKilled, stopping>>
procVars == <<ffmpegProc, ffplayProc>>
loopVars == <<mainPc, camWasActive, active, stopTimer, sleepLeft>>
vars == <<procFfmpeg, procFfplay, ffmpegKilled, stopping, ffmpegProc, ffplayProc,
          zmqSock, inflight, busySend, sendQueue, mixerGain, mainPc, camWasActive, active, stopTimer,
          sleepLeft, exitCode, falseFor, cmdEv, killEv, stopEv, probeEv, loopEv>>

Running == exitCode = NotExited

Init ==
    /\ procFfmpeg = "null"
    /\ procFfplay = "null"
    /\ ffmpegKilled = FALSE
    /\ stopping = FALSE
    /\ ffmpegProc = "none"
    /\ ffplayProc = "none"
    /\ zmqSock = "null"
    /\ inflight = NoInflight
    /\ busySend \in {"reject", "wait"}
    /\ sendQueue = <<>>
    /\ mixerGain = Mute
    /\ mainPc = "start"
    /\ camWasActive = FALSE
    /\ active = FALSE
    /\ stopTimer = NoTimer
    /\ sleepLeft = 0
    /\ exitCode = NotExited
    /\ falseFor = NoRun
    /\ cmdEv = NoCmd
    /\ killEv = {}
    /\ stopEv = NoStop
    /\ probeEv = FALSE
    /\ loopEv = NoLoopEv

\* ------------------------------------------------------------ helpers
\* await zmqSock.send(cmd) on a socket whose request is outstanding: the
\* zeromq package decides what happens, and the program fixes neither.
\* With busySend = "wait" the send does not settle until the socket can
\* send again; with busySend = "reject" it is rejected at once.
Holds(sock) == sock = "busy" /\ busySend = "wait"

\* setMusicVolume(vol) called by `who` when the socket is in state `sock`:
\* returns at once without a socket; otherwise calls zmqSock.send.  On an
\* idle socket the request goes out and the caller awaits the reply.  With
\* a request outstanding the send either waits its turn, the caller
\* suspended in it, or is rejected, the catch swallows the error and the
\* command is dropped.
SetMusicVolume(sock, who, vol) ==
    /\ zmqSock' = IF sock = "idle" THEN "busy" ELSE sock
    /\ inflight' = IF sock = "idle" THEN [who |-> who, vol |-> vol] ELSE inflight
    /\ sendQueue' = IF Holds(sock)
                    THEN Append(sendQueue, [who |-> who, vol |-> vol])
                    ELSE sendQueue
    /\ cmdEv' = IF sock = "null" THEN NoCmd
                ELSE [who |-> who, vol |-> vol, overlap |-> (sock = "busy")]
    /\ UNCHANGED busySend

\* The call above does not settle in the turn that made it: the caller is
\* left awaiting the send or the reply.
Awaits(sock) == sock = "idle" \/ Holds(sock)

\* The signal handlers suspended in a waiting send.
SigWaiting == Cardinality({i \in 1..Len(sendQueue) : sendQueue[i].who = "sig"})

NoSend == UNCHANGED sockVars /\ cmdEv' = NoCmd

\* What subprocess.kill() can return for a child in state `proc`: true for
\* a live child; false once Node has closed the handle.  For a child that
\* has exited and is not yet reaped, and for one that failed to start and
\* whose 'error' is not yet emitted, it depends on the platform: the
\* signal is accepted by a POSIX zombie and refused (ESRCH) on Windows.
KillReturns(proc) ==
    IF proc = "running" THEN {TRUE}
    ELSE IF proc \in {"exited", "failed"} THEN {TRUE, FALSE}
    ELSE {FALSE}

\* subprocess.kill("SIGTERM") on a held handle: the calls it can amount to.
\* `delivered` is kill()'s return value, which also sets .killed.
Kill(by, target, proc) ==
    {[by |-> by, target |-> target, delivered |-> ok] : ok \in KillReturns(proc)}

\* stopPipeline without the two assignments of null.
StopPipelineKeepsHandles ==
    /\ stopping' = TRUE
    /\ stopEv' = [called |-> TRUE,
                  streams |-> (procFfmpeg = "held" /\ procFfplay = "held")]
    /\ \E kp \in Kill("stop", "ffplay", ffplayProc), km \in Kill("stop", "ffmpeg", ffmpegProc) :
          /\ killEv' = (IF procFfplay = "held" THEN {kp} ELSE {})
                       \cup (IF procFfmpeg = "held" THEN {km} ELSE {})
          /\ ffmpegKilled' = (ffmpegKilled \/ (procFfmpeg = "held" /\ km.delivered))
    /\ UNCHANGED <<procFfplay, procFfmpeg>>

\* stopPipeline that forgets procFfmpeg = null.
StopPipelineLeavesEncoder ==
    /\ stopping' = TRUE
    /\ stopEv' = [called |-> TRUE,
                  streams |-> (procFfmpeg = "held" /\ procFfplay = "held")]
    /\ \E kp \in Kill("stop", "ffplay", ffplayProc), km \in Kill("stop", "ffmpeg", ffmpegProc) :
          /\ killEv' = (IF procFfplay = "held" THEN {kp} ELSE {})
                       \cup (IF procFfmpeg = "held" THEN {km} ELSE {})
          /\ ffmpegKilled' = (ffmpegKilled \/ (procFfmpeg = "held" /\ km.delivered))
    /\ procFfplay' = "null"
    /\ UNCHANGED procFfmpeg

\* stopPipeline()
StopPipeline ==
    /\ stopping' = TRUE
    /\ stopEv' = [called |-> TRUE,
                  streams |-> (procFfmpeg = "held" /\ procFfplay = "held")]
    /\ \E kp \in Kill("stop", "ffplay", ffplayProc), km \in Kill("stop", "ffmpeg", ffmpegProc) :
          /\ killEv' = (IF procFfplay = "held" THEN {kp} ELSE {})
                       \cup (IF procFfmpeg = "held" THEN {km} ELSE {})
          /\ ffmpegKilled' = (ffmpegKilled \/ (procFfmpeg = "held" /\ km.delivered))
    /\ procFfplay' = "null"
    /\ procFfmpeg' = "null"

NoTeardown == UNCHANGED supVars /\ killEv' = {} /\ stopEv' = NoStop

ProcessExitSkipped(code) == exitCode' = exitCode

\* process.exit(code)
ProcessExit(code) == exitCode' = code

\* ------------------------------------------------------------ main()
\* main() up to its first await: startPipeline(), then sleep(350).  Either
\* spawn can fail to start its program.
StartMain ==
    /\ mainPc = "start"
    /\ Running
    /\ stopping' = FALSE
    /\ procFfmpeg' = "held"
    /\ procFfplay' = "held"
    /\ ffmpegKilled' = FALSE
    /\ \E st \in {"running", "failed"} : ffmpegProc' = st
    /\ \E st \in {"running", "failed"} : ffplayProc' = st
    /\ mainPc' = "warmup"
    /\ sleepLeft' = WARMUP_MS
    /\ killEv' = {} /\ stopEv' = NoStop /\ probeEv' = FALSE
    /\ loopEv' = NoLoopEv
    /\ NoSend
    /\ UNCHANGED <<mixerGain, camWasActive, active, stopTimer, exitCode, falseFor>>

\* main() rejects inside startPipeline(), before its first await, and
\* main().catch runs: a spawn throws (l.83: no handle assigned yet; l.143:
\* only procFfmpeg is), or the encoder's spawn failed leaving no stdout
\* and l.164 throws.  The 'error' of an encoder that failed to start is
\* emitted, and its handle closed, on the next tick, before the promise
\* reaction: the handler finds it "errored".  setMusicVolume(0.0) returns
\* at once (no socket), stopPipeline() signals what was started, exit(1).
StartThrows ==
    /\ mainPc = "start"
    /\ Running
    /\ \E at \in {"ffmpeg", "ffplay", "pipe"} :
       \E se \in (IF at = "ffmpeg" THEN {"none"}
                  ELSE IF at = "ffplay" THEN {"running", "errored"}
                  ELSE {"errored"}),
          sp \in (IF at = "pipe" THEN {"running"} ELSE {"none"}) :
          /\ ffmpegProc' = se
          /\ ffplayProc' = sp
          /\ \E kp \in Kill("stop", "ffplay", sp), km \in Kill("stop", "ffmpeg", se) :
                /\ killEv' = (IF sp # "none" THEN {kp} ELSE {})
                             \cup (IF se # "none" THEN {km} ELSE {})
                /\ ffmpegKilled' = (se # "none" /\ km.delivered)
    /\ stopping' = TRUE
    /\ stopEv' = [called |-> TRUE, streams |-> FALSE]
    /\ procFfplay' = "null"
    /\ procFfmpeg' = "null"
    /\ NoSend
    /\ ProcessExit(1)
    /\ mainPc' = "failed"
    /\ probeEv' = FALSE
    /\ loopEv' = NoLoopEv
    /\ UNCHANGED <<mixerGain, camWasActive, active, stopTimer, sleepLeft, falseFor>>

\* main() rejects at l.164 while the sink's spawn has failed: a spawn that
\* failed left no stream to pipe.  The sink's 'error' is emitted on the
\* next tick, before the promise reaction, and nothing listens for it
\* (l.143-177): the process dies with code 1 and main().catch never
\* runs.  No mute, no stopPipeline, the encoder is not signalled.
StartThrowsSinkFailed ==
    /\ mainPc = "start"
    /\ Running
    /\ \E se \in {"running", "errored"} : ffmpegProc' = se
    /\ ffplayProc' = "errored"
    /\ stopping' = FALSE
    /\ procFfmpeg' = "held"
    /\ procFfplay' = "held"
    /\ ffmpegKilled' = FALSE
    /\ killEv' = {}
    /\ stopEv' = NoStop
    /\ NoSend
    /\ ProcessExit(1)
    /\ mainPc' = "failed"
    /\ probeEv' = FALSE
    /\ loopEv' = NoLoopEv
    /\ UNCHANGED <<mixerGain, camWasActive, active, stopTimer, sleepLeft, falseFor>>

\* main that does not await the initial mute before its first probe.
ConnectOkNoAwait ==
    /\ mainPc = "warmup"
    /\ sleepLeft = 0
    /\ Running
    /\ SetMusicVolume("idle", "init", Mute)
    /\ mainPc' = "probe"
    /\ probeEv' = TRUE
    /\ loopEv' = NoLoopEv
    /\ NoTeardown
    /\ UNCHANGED <<procVars, mixerGain, camWasActive, active, stopTimer, sleepLeft,
                   exitCode, falseFor>>

\* initZmq() resolves after the warm-up; main goes straight on to
\* await setMusicVolume(0.0), on a socket that was just created.
ConnectOk ==
    /\ mainPc = "warmup"
    /\ sleepLeft = 0
    /\ Running
    /\ SetMusicVolume("idle", "init", Mute)
    /\ mainPc' = "awaitInit"
    /\ probeEv' = FALSE
    /\ loopEv' = NoLoopEv
    /\ NoTeardown
    /\ UNCHANGED <<procVars, mixerGain, camWasActive, active, stopTimer, sleepLeft,
                   exitCode, falseFor>>

\* if (active && !camWasActive)
RisingEdgeAlways(r) == r
RisingEdge(r) == r /\ ~camWasActive

FallingEdgeAlways(r) == ~r

\* else if (!active && camWasActive)
FallingEdge(r) == ~r /\ camWasActive

\* clearTimeout(stopTimer) before the active command is sent.
ClearTimeoutMissing == stopTimer
ClearTimeout == NoTimer

\* setTimeout(..., 300)
ArmDelayShort == CAM_POLL_MS
ArmDelay == DEBOUNCE_MS

\* isWebcamInUse() resolves with reading r: one pass of the loop body, up
\* to the next await (of setMusicVolume, or of sleep(CAM_POLL_MS)).
ProbeResult(r) ==
    /\ mainPc = "probe"
    /\ Running
    /\ active' = r
    /\ falseFor' = IF r THEN NoRun ELSE IF falseFor = NoRun THEN 0 ELSE falseFor
    /\ IF RisingEdge(r)
       THEN /\ stopTimer' = ClearTimeout
            /\ SetMusicVolume(zmqSock, "loop", MUSIC_GAIN_ACTIVE)
            /\ IF Awaits(zmqSock)
               THEN /\ mainPc' = "awaitActive"
                    /\ UNCHANGED <<camWasActive, sleepLeft>>
               ELSE /\ camWasActive' = r
                    /\ mainPc' = "sleep"
                    /\ sleepLeft' = CAM_POLL_MS
       ELSE /\ NoSend
            /\ stopTimer' = IF FallingEdge(r) THEN ArmDelay ELSE stopTimer
            /\ camWasActive' = r
            /\ mainPc' = "sleep"
            /\ sleepLeft' = CAM_POLL_MS
    /\ probeEv' = FALSE
    /\ loopEv' = [polled |-> TRUE, prev |-> active, cur |-> r,
                  timer |-> IF stopTimer' = NoTimer
                            THEN IF stopTimer = NoTimer THEN "none" ELSE "cancelled"
                            ELSE IF ~(RisingEdge(r) \/ FallingEdge(r)) THEN "none"
                            ELSE IF RisingEdge(r) THEN "kept"
                            ELSE IF stopTimer = NoTimer THEN "armed" ELSE "rearmed"]
    /\ NoTeardown
    /\ UNCHANGED <<procVars, mixerGain, exitCode>>

\* sleep(CAM_POLL_MS) resolves and isWebcamInUse() throws (its spawn
\* throws inside the promise executor): main() rejects and main().catch
\* runs in the same turn, on the socket as it is.
SleepDoneProbeThrows ==
    /\ mainPc = "sleep"
    /\ sleepLeft = 0
    /\ Running
    /\ SetMusicVolume(zmqSock, "catch", Mute)
    /\ StopPipeline
    /\ ProcessExit(1)
    /\ mainPc' = "failed"
    /\ probeEv' = TRUE
    /\ loopEv' = NoLoopEv
    /\ UNCHANGED <<procVars, mixerGain, camWasActive, active, stopTimer, sleepLeft,
                   falseFor>>

\* sleep(CAM_POLL_MS) resolves: the loop starts the next probe.
SleepDone ==
    /\ mainPc = "sleep"
    /\ sleepLeft = 0
    /\ Running
    /\ mainPc' = "probe"
    /\ probeEv' = TRUE
    /\ loopEv' = NoLoopEv
    /\ NoSend
    /\ NoTeardown
    /\ UNCHANGED <<procVars, mixerGain, camWasActive, active, stopTimer, sleepLeft,
                   exitCode, falseFor>>

\* ------------------------------------------------------------ control channel
\* The mixer applies the outstanding request and its reply is received:
\* zmqSock.receive() resolves for the caller `who`.  The socket can send
\* again, so the oldest waiting send goes out.
ReplyArrives(who) ==
    /\ Running
    /\ zmqSock = "busy"
    /\ inflight.who = who
    /\ ffmpegProc = "running"
    /\ mixerGain' = inflight.vol
    /\ IF sendQueue = <<>>
       THEN /\ zmqSock' = "idle"
            /\ inflight' = NoInflight
            /\ sendQueue' = <<>>
       ELSE /\ zmqSock' = "busy"
            /\ inflight' = Head(sendQueue)
            /\ sendQueue' = Tail(sendQueue)
    /\ cmdEv' = NoCmd
    /\ UNCHANGED busySend

\* The initial mute is acknowledged: main enters the loop and probes.
ReplyInit ==
    /\ ReplyArrives("init")
    /\ mainPc' = "probe"
    /\ probeEv' = TRUE
    /\ loopEv' = NoLoopEv
    /\ NoTeardown
    /\ UNCHANGED <<procVars, camWasActive, active, stopTimer, sleepLeft, exitCode,
                   falseFor>>

\* The initial mute is acknowledged and the first isWebcamInUse() throws:
\* main().catch runs in the same turn.  Its mute goes out on the socket
\* the reply left idle, or waits behind the send that went out first.
ReplyInitProbeThrows ==
    /\ Running
    /\ zmqSock = "busy"
    /\ inflight.who = "init"
    /\ ffmpegProc = "running"
    /\ mixerGain' = inflight.vol
    /\ zmqSock' = "busy"
    /\ IF sendQueue = <<>>
       THEN /\ inflight' = [who |-> "catch", vol |-> Mute]
            /\ sendQueue' = <<>>
       ELSE /\ inflight' = Head(sendQueue)
            /\ sendQueue' = Append(Tail(sendQueue), [who |-> "catch", vol |-> Mute])
    /\ cmdEv' = [who |-> "catch", vol |-> Mute, overlap |-> (sendQueue # <<>>)]
    /\ UNCHANGED busySend
    /\ StopPipeline
    /\ ProcessExit(1)
    /\ mainPc' = "failed"
    /\ probeEv' = TRUE
    /\ loopEv' = NoLoopEv
    /\ UNCHANGED <<procVars, camWasActive, active, stopTimer, sleepLeft, falseFor>>

\* The loop's active command is acknowledged: camWasActive = active; sleep.
ReplyLoop ==
    /\ ReplyArrives("loop")
    /\ camWasActive' = active
    /\ mainPc' = "sleep"
    /\ sleepLeft' = CAM_POLL_MS
    /\ probeEv' = FALSE
    /\ loopEv' = NoLoopEv
    /\ NoTeardown
    /\ UNCHANGED <<procVars, active, stopTimer, exitCode, falseFor>>

\* The timer's mute is acknowledged: nobody waits on it.
ReplyTimer ==
    /\ ReplyArrives("timer")
    /\ probeEv' = FALSE
    /\ loopEv' = NoLoopEv
    /\ NoTeardown
    /\ UNCHANGED <<procVars, loopVars, exitCode, falseFor>>

\* The signal handler's mute is acknowledged: .finally runs.
ReplySignal ==
    /\ ReplyArrives("sig")
    /\ StopPipeline
    /\ ProcessExit(0)
    /\ probeEv' = FALSE
    /\ loopEv' = NoLoopEv
    /\ UNCHANGED <<procVars, loopVars, falseFor>>

\* ------------------------------------------------------------ debounce timer
\* The setTimeout callback: setMusicVolume(0.0), not awaited.
TimerFire ==
    /\ Running
    /\ stopTimer = 0
    /\ stopTimer' = NoTimer
    /\ SetMusicVolume(zmqSock, "timer", Mute)
    /\ probeEv' = FALSE
    /\ loopEv' = [NoLoopEv EXCEPT !.timer = "fired"]
    /\ NoTeardown
    /\ UNCHANGED <<procVars, mixerGain, mainPc, camWasActive, active, sleepLeft,
                   exitCode, falseFor>>

\* TickMs pass: pending timers count down (a due timer may fire late).
\* The 'error' of a failed spawn is emitted on the next tick, before any
\* time passes.
Tick ==
    /\ Running
    /\ mainPc # "start"
    /\ ffmpegProc # "failed"
    /\ ffplayProc # "failed"
    /\ sleepLeft' = IF mainPc \in {"warmup", "sleep"}
                    THEN Max(0, sleepLeft - TickMs) ELSE sleepLeft
    /\ stopTimer' = IF stopTimer = NoTimer THEN NoTimer ELSE Max(0, stopTimer - TickMs)
    /\ falseFor' = IF falseFor = NoRun THEN NoRun ELSE Min(DEBOUNCE_MS, falseFor + TickMs)
    /\ probeEv' = FALSE
    /\ loopEv' = NoLoopEv
    /\ NoSend
    /\ NoTeardown
    /\ UNCHANGED <<procVars, mixerGain, mainPc, camWasActive, active, exitCode>>

\* ------------------------------------------------------------ shutdown
\* The SIGINT and SIGTERM handlers: setMusicVolume(0.0).finally(stop, exit 0).
\* Without a socket, or when the send is rejected, setMusicVolume settles
\* at once and .finally runs in the same turn; otherwise the handler stays
\* suspended until its own reply arrives.
ShutdownHandler ==
    /\ Running
    /\ mainPc # "start"
    /\ Holds(zmqSock) => SigWaiting < MaxSigWaiting
    /\ SetMusicVolume(zmqSock, "sig", Mute)
    /\ IF Awaits(zmqSock)
       THEN NoTeardown /\ UNCHANGED exitCode
       ELSE StopPipeline /\ ProcessExit(0)
    /\ probeEv' = FALSE
    /\ loopEv' = NoLoopEv
    /\ UNCHANGED <<procVars, mixerGain, loopVars, falseFor>>

OnSIGINT == ShutdownHandler

OnSIGTERM == ShutdownHandler

\* initZmq() rejects after the warm-up: main().catch runs
\* setMusicVolume(0.0) (not awaited), stopPipeline() and process.exit(1).
\* When new zmq.Request() threw, zmqSock is still null and nothing is
\* sent; when connect rejected, the mute goes out on the new socket.
MainCatch ==
    /\ mainPc = "warmup"
    /\ sleepLeft = 0
    /\ Running
    /\ \E sock \in {"null", "idle"} : SetMusicVolume(sock, "catch", Mute)
    /\ StopPipeline
    /\ ProcessExit(1)
    /\ mainPc' = "failed"
    /\ probeEv' = FALSE
    /\ loopEv' = NoLoopEv
    /\ UNCHANGED <<procVars, mixerGain, camWasActive, active, stopTimer, sleepLeft,
                   falseFor>>

\* ------------------------------------------------------------ subprocesses
NoProgramStep ==
    /\ NoSend
    /\ probeEv' = FALSE
    /\ loopEv' = NoLoopEv
    /\ stopEv' = NoStop
    /\ UNCHANGED <<procFfmpeg, procFfplay, stopping, mixerGain, loopVars, exitCode,
                   falseFor>>

\* The sink process exits (on its own, or after a signal).
FfplayExit ==
    /\ ffplayProc = "running"
    /\ ffplayProc' = "exited"
    /\ killEv' = {}
    /\ NoProgramStep
    /\ UNCHANGED <<ffmpegProc, ffmpegKilled>>

\* The encoder process exits (on its own, or after a signal).
FfmpegExit ==
    /\ ffmpegProc = "running"
    /\ ffmpegProc' = "exited"
    /\ killEv' = {}
    /\ NoProgramStep
    /\ UNCHANGED <<ffplayProc, ffmpegKilled>>

SinkCloseKillsNothing(k) == {}

\* procFfplay.on("close", ...): k is the kill call it makes, if it makes one.
SinkCloseKills(k) ==
    IF ~stopping /\ procFfmpeg # "null" /\ ~ffmpegKilled
    THEN {k}
    ELSE {}

EncoderCloseKillsSink == IF ~stopping THEN Kill("close", "ffplay", "running") ELSE {}

\* No exit or close listener is registered on procFfmpeg.
EncoderCloseKills == {}

\* Node emits 'close' for the sink: the listener runs.
FfplayClose ==
    /\ Running
    /\ ffplayProc = "exited"
    /\ ffplayProc' = "closed"
    /\ \E k \in Kill("close", "ffmpeg", ffmpegProc) :
          /\ killEv' = SinkCloseKills(k)
          /\ ffmpegKilled' = (ffmpegKilled \/ \E c \in SinkCloseKills(k) : c.delivered)
    /\ NoProgramStep
    /\ UNCHANGED ffmpegProc

\* Node emits 'exit' and 'close' for the encoder: nothing listens.
FfmpegClose ==
    /\ Running
    /\ ffmpegProc = "exited"
    /\ ffmpegProc' = "closed"
    /\ killEv' = EncoderCloseKills
    /\ NoProgramStep
    /\ UNCHANGED <<ffplayProc, ffmpegKilled>>

\* procFfmpeg.on("error", ...): the encoder failed to start; logged only.
FfmpegError ==
    /\ Running
    /\ ffmpegProc = "failed"
    /\ ffmpegProc' = "errored"
    /\ killEv' = {}
    /\ NoProgramStep
    /\ UNCHANGED <<ffplayProc, ffmpegKilled>>

\* No 'error' listener is registered on procFfplay: when the sink failed
\* to start, the event is unhandled and ends the process with code 1,
\* with no mute, no stopPipeline and no signal to the encoder.
FfplayError ==
    /\ Running
    /\ ffplayProc = "failed"
    /\ ffplayProc' = "errored"
    /\ killEv' = {}
    /\ NoSend
    /\ probeEv' = FALSE
    /\ loopEv' = NoLoopEv
    /\ stopEv' = NoStop
    /\ ProcessExit(1)
    /\ UNCHANGED <<procFfmpeg, procFfplay, stopping, mixerGain, loopVars, falseFor,
                   ffmpegProc, ffmpegKilled>>

\* ------------------------------------------------------------ specification
Next ==
    \/ StartMain
    \/ StartThrows
    \/ StartThrowsSinkFailed
    \/ ConnectOk
    \/ MainCatch
    \/ SleepDoneProbeThrows
    \/ ReplyInitProbeThrows
    \/ \E r \in BOOLEAN : ProbeResult(r)
    \/ SleepDone
    \/ ReplyInit
    \/ ReplyLoop
    \/ ReplyTimer
    \/ ReplySignal
    \/ TimerFire
    \/ Tick
    \/ OnSIGINT
    \/ OnSIGTERM
    \/ FfplayExit
    \/ FfmpegExit
    \/ FfplayClose
    \/ FfmpegClose
    \/ FfmpegError
    \/ FfplayError

Spec == Init /\ [][Next]_vars

\* The event loop runs every callback that is due, time passes, the prober
\* answers, and a live mixer answers every request.  Signals, subprocess
\* deaths, and a throwing spawn or a failing connect (which make main()
\* reject) are the environment's choice.
FairSpec ==
    /\ Spec
    /\ WF_vars(StartMain)
    /\ WF_vars(ConnectOk)
    /\ WF_vars(\E r \in BOOLEAN : ProbeResult(r))
    /\ WF_vars(SleepDone)
    /\ WF_vars(ReplyInit)
    /\ WF_vars(ReplyLoop)
    /\ WF_vars(ReplyTimer)
    /\ WF_vars(ReplySignal)
    /\ WF_vars(TimerFire)
    /\ WF_vars(Tick)
    /\ WF_vars(FfplayClose)
    /\ WF_vars(FfmpegClose)
    /\ WF_vars(FfmpegError)
    /\ WF_vars(FfplayError)

TypeOK ==
    /\ procFfmpeg \in {"null", "held"}
    /\ procFfplay \in {"null", "held"}
    /\ ffmpegKilled \in BOOLEAN
    /\ stopping \in BOOLEAN
    /\ ffmpegProc \in {"none", "running", "failed", "errored", "exited", "closed"}
    /\ ffplayProc \in {"none", "running", "failed", "errored", "exited", "closed"}
    /\ busySend \in {"reject", "wait"}
    /\ sendQueue \in Seq([who : {"loop", "timer", "sig", "catch"}, vol : {Mute, MUSIC_GAIN_ACTIVE}])
    /\ (sendQueue # <<>>) => (zmqSock = "busy" /\ busySend = "wait")
    /\ zmqSock \in {"null", "idle", "busy"}
    /\ mainPc \in {"start", "warmup", "awaitInit", "probe", "awaitActive", "sleep", "failed"}
    /\ camWasActive \in BOOLEAN
    /\ active \in BOOLEAN
    /\ stopTimer \in {NoTimer} \cup 0..DEBOUNCE_MS
    /\ sleepLeft \in 0..WARMUP_MS
    /\ exitCode \in {NotExited, 0, 1}
    /\ falseFor \in {NoRun} \cup 0..DEBOUNCE_MS
    /\ (zmqSock = "busy") = (inflight # NoInflight)

\* ------------------------------------------------------------ stopPipeline alone
\* stopPipeline() called directly, at any point of the pipeline's life:
\* before startPipeline, on a live pipeline, after either process is gone,
\* and again after an earlier call.
CallStopPipeline ==
    /\ Running
    /\ StopPipeline
    /\ NoSend
    /\ probeEv' = FALSE
    /\ loopEv' = NoLoopEv
    /\ UNCHANGED <<procVars, mixerGain, loopVars, exitCode, falseFor>>

StopNext ==
    \/ StartMain
    \/ CallStopPipeline
    \/ Tick
    \/ FfplayExit
    \/ FfmpegExit
    \/ FfplayClose
    \/ FfmpegClose
    \/ FfmpegError
    \/ FfplayError

\* The supervisor driven by direct calls of stopPipeline.
StopSpec == Init /\ [][StopNext]_vars

\* ------------------------------------------------------------ properties
\* The step is one pass of the loop body: a probe has resolved.
PollStep == mainPc = "probe" /\ mainPc' # "probe"

\* The step is the sink's close listener.
SinkCloseStep == ffplayProc = "exited" /\ ffplayProc' = "closed"

\* The step is the event loop reaping the exited encoder.
EncoderCloseStep == ffmpegProc = "exited" /\ ffmpegProc' = "closed"

\* The commands of the control loop: the loop body's and the timer's.
LoopCmd(c) == c.who \in {"loop", "timer"}

\* A signal handler has called setMusicVolume and not yet run .finally.
SigPending == inflight.who = "sig" \/ SigWaiting > 0

\* C1: the poll that reads true after a recorded false reading calls
\* setMusicVolume(MUSIC_GAIN_ACTIVE); while the last reading is true no
\* other step makes the loop or its timer issue a command.
C1_ActiveOnFirstTrue ==
    [][ /\ (PollStep /\ active' /\ ~camWasActive)
            => (cmdEv'.who = "loop" /\ cmdEv'.vol = MUSIC_GAIN_ACTIVE)
        /\ (active' /\ ~(PollStep /\ ~camWasActive))
            => ~LoopCmd(cmdEv') ]_vars

C1_Witness ==
    /\ cmdEv.who = "loop"
    /\ cmdEv.vol = MUSIC_GAIN_ACTIVE
    /\ active
    /\ ~camWasActive
    /\ mainPc = "awaitActive"

\* C2: the poll that reads false in the Active state issues no command;
\* the control loop issues a mute only from the timer, and only when the
\* readings have been false for the whole debounce window.
C2_MuteOnlyAfterDebounce ==
    [][ /\ (PollStep /\ ~active' /\ camWasActive) => cmdEv' = NoCmd
        /\ (LoopCmd(cmdEv') /\ cmdEv'.vol = Mute)
            => (cmdEv'.who = "timer" /\ ~active /\ falseFor >= DEBOUNCE_MS) ]_vars

C2_Witness ==
    /\ cmdEv.who = "timer"
    /\ cmdEv.vol = Mute
    /\ falseFor = DEBOUNCE_MS
    /\ ~active

\* C3: a true reading taken while the debounce timer is pending cancels
\* the timer and issues no command at all.
C3_NoCommandOnCancel ==
    [][ (PollStep /\ active' /\ stopTimer # NoTimer)
            => (stopTimer' = NoTimer /\ cmdEv' = NoCmd) ]_vars

\* C4: setMusicVolume never calls zmqSock.send while an earlier request
\* is still awaiting its reply.
C4_NoOverlappingRequest == ~cmdEv.overlap

\* C5: once a shutdown signal has been received the program eventually
\* exits with code 0.
C5_SignalLeadsToExit == SigPending ~> (exitCode = 0)

\* C6: the main loop polls the prober again and again for as long as the
\* program runs, whatever the control channel does.
C6_LoopKeepsPolling == []<>(mainPc = "probe" \/ ~Running)

\* C7: from the receipt of a shutdown signal on, no probe is started and
\* neither the loop nor its timer issues a command.
C7_LoopStopsOnSignal ==
    [][ SigPending => (~probeEv' /\ ~LoopCmd(cmdEv')) ]_vars

\* C8: when the sink closes while stopping is false and the encoder handle
\* is held and not killed, the close listener calls kill("SIGTERM") on
\* the encoder.
C8_SinkCloseKillsEncoder ==
    [][ (Running /\ SinkCloseStep /\ ~stopping /\ procFfmpeg = "held" /\ ~ffmpegKilled)
            => \E k \in killEv' : k.by = "close" /\ k.target = "ffmpeg" ]_vars

C8_Witness ==
    /\ ffplayProc = "closed"
    /\ ~stopping
    /\ \E k \in killEv : k.by = "close" /\ k.target = "ffmpeg" /\ k.delivered
    /\ ffmpegKilled

\* C9: while stopping is true no step signals a process and no step
\* enters stopPipeline, whichever subprocess exits.
C9_NoTeardownWhileStopping ==
    [][ stopping => (killEv' = {} /\ ~stopEv'.called) ]_vars

C9_Witness ==
    /\ stopping
    /\ ffplayProc = "exited"
    /\ ffmpegProc = "exited"
    /\ killEv = {}
    /\ ~stopEv.called

\* C10 as stated: whichever subprocess closes while no stop is in
\* progress, the other one is signalled.
C10_SymmetricPropagation ==
    [][ /\ (Running /\ SinkCloseStep /\ ~stopping /\ procFfmpeg = "held" /\ ~ffmpegKilled)
            => \E k \in killEv' : k.target = "ffmpeg"
        /\ (Running /\ EncoderCloseStep /\ ~stopping /\ procFfplay = "held")
            => \E k \in killEv' : k.target = "ffplay" ]_vars

\* C10 amended: propagation runs from the sink to the encoder only: the
\* sink's close signals the encoder and nothing else; the encoder's exit
\* signals nothing.
C10_SinkToEncoderOnly ==
    [][ /\ (Running /\ SinkCloseStep /\ ~stopping /\ procFfmpeg = "held" /\ ~ffmpegKilled)
            => (\E k \in Kill("close", "ffmpeg", ffmpegProc) : killEv' = {k})
        /\ (Running /\ EncoderCloseStep) => killEv' = {} ]_vars

C10_Witness ==
    /\ Running
    /\ ~stopping
    /\ ffmpegProc = "closed"
    /\ ffplayProc = "running"
    /\ procFfplay = "held"
    /\ killEv = {}

\* C11: a stopPipeline call that directly follows another one signals no
\* process and touches no stream.
C11_StopIdempotent ==
    [][ (stopEv.called /\ stopEv'.called)
            => (killEv' = {} /\ ~stopEv'.streams /\ stopping') ]_vars

C11_Witness ==
    /\ stopEv.called
    /\ killEv = {}
    /\ ~stopEv.streams
    /\ stopping
    /\ ffplayProc = "running"
    /\ ffmpegProc = "running"

\* C12: every stopPipeline call, whatever the state of the pipeline, ends
\* with stopping true and both handles null.
C12_StopAlwaysCompletes ==
    [][ stopEv'.called
            => (stopping' /\ procFfmpeg' = "null" /\ procFfplay' = "null") ]_vars

C12_Witness ==
    /\ stopEv.called
    /\ stopping
    /\ procFfmpeg = "null"
    /\ procFfplay = "null"
    /\ ffplayProc = "closed"
    /\ ffmpegProc = "exited"
    /\ ffmpegKilled

\* C13: when main() rejects, at whatever point, setMusicVolume(0.0) is
\* called (which sends the mute when there is a socket), then
\* stopPipeline(), and only then the process exits with code 1; code 0
\* comes only from a signal handler.
C13_CatchMutesStopsExitsOne ==
    [][ /\ (mainPc # "failed" /\ mainPc' = "failed")
            => (stopEv'.called /\ stopping' /\ procFfmpeg' = "null"
                /\ procFfplay' = "null" /\ exitCode' = 1
                /\ ((zmqSock' # "null") => (cmdEv'.who = "catch" /\ cmdEv'.vol = Mute))
                /\ ((zmqSock' = "null") => (cmdEv' = NoCmd)))
        /\ (exitCode # 0 /\ exitCode' = 0)
            => (mainPc' # "failed"
                /\ (cmdEv'.who = "sig" \/ inflight.who = "sig" \/ zmqSock = "null")) ]_vars

\* C14: the timer is armed only by the first false reading after a true
\* one, for the full window; later false readings leave it alone; its
\* callback issues the mute once the window has passed and leaves no
\* timer behind; and a pending timer does fire unless a true reading or
\* the exit comes first.
C14_OneMutePerEpisode ==
    /\ [][ /\ (loopEv'.polled /\ ~loopEv'.cur /\ ~loopEv'.prev)
                => (stopTimer' = stopTimer /\ cmdEv' = NoCmd)
           /\ (loopEv'.timer \in {"armed", "rearmed"})
                => (loopEv'.prev /\ ~loopEv'.cur /\ falseFor' = 0
                    /\ stopTimer' = DEBOUNCE_MS)
           /\ (cmdEv'.who = "timer")
                => (falseFor >= DEBOUNCE_MS /\ stopTimer' = NoTimer) ]_vars
    /\ (stopTimer # NoTimer) ~> (cmdEv.who = "timer" \/ active \/ ~Running)

C14_Witness ==
    /\ mainPc = "sleep"
    /\ sleepLeft = CAM_POLL_MS
    /\ loopEv.polled /\ ~loopEv.cur /\ ~loopEv.prev
    /\ stopTimer # NoTimer
    /\ stopTimer < DEBOUNCE_MS

\* C15: the rising-edge poll cancels the timer before it sends the active
\* command, so the timer never issues its mute once a later true reading
\* has been taken.
C15_MuteNeverAfterLaterActive ==
    [][ /\ (loopEv'.polled /\ loopEv'.cur /\ ~loopEv'.prev) => stopTimer' = NoTimer
        /\ (cmdEv'.who = "timer") => (~active /\ ~camWasActive /\ mainPc # "awaitActive")
        /\ (cmdEv'.who = "loop") => loopEv'.timer \in {"none", "cancelled"} ]_vars

C15_Witness ==
    /\ loopEv.timer = "cancelled"
    /\ cmdEv.who = "loop"
    /\ cmdEv.vol = MUSIC_GAIN_ACTIVE
    /\ stopTimer = NoTimer
    /\ active

\* C16: in every quiescent state of the running loop (no timer pending,
\* no request outstanding or waiting) the mixer's gain is the active gain
\* exactly when the last reading was true.
C16_GainFollowsReading ==
    (Running /\ mainPc \in {"probe", "sleep"} /\ stopTimer = NoTimer /\ zmqSock = "idle")
        => ((mixerGain = MUSIC_GAIN_ACTIVE) <=> active)

\* C17: a poll whose reading equals the previous one issues no command
\* and leaves the timer alone; a poll that issues a command or touches
\* the timer has read a change.
C17_SameReadingIsNoOp ==
    [][ (loopEv'.polled /\ loopEv'.cur = loopEv'.prev)
            => (cmdEv' = NoCmd /\ stopTimer' = stopTimer /\ loopEv'.timer = "none"
                /\ camWasActive' = camWasActive) ]_vars

C17_Witness ==
    /\ loopEv.polled
    /\ loopEv.cur /\ loopEv.prev
    /\ cmdEv = NoCmd
    /\ camWasActive
    /\ mainPc = "sleep"

\* C18: the socket appears only after the pipeline was started and the
\* warm-up has run out, and the first probe starts only when the initial
\* mute has been acknowledged, with camWasActive false, no timer and the
\* mixer's gain at mute.
C18_StartupOrder ==
    [][ /\ (zmqSock = "null" /\ zmqSock' # "null")
            => (mainPc = "warmup" /\ sleepLeft = 0 /\ procFfmpeg = "held"
                /\ procFfplay = "held")
        /\ (mainPc \in {"start", "warmup", "awaitInit"} /\ probeEv')
            => (mainPc = "awaitInit" /\ inflight = [who |-> "init", vol |-> Mute]
                /\ inflight'.who # "init" /\ mixerGain' = Mute
                /\ ~camWasActive' /\ stopTimer' = NoTimer) ]_vars

C18_Witness ==
    /\ mainPc = "probe"
    /\ probeEv
    /\ falseFor = NoRun
    /\ ~active
    /\ ~camWasActive
    /\ stopTimer = NoTimer
    /\ zmqSock = "idle"
    /\ mixerGain = Mute

\* C19: the timer is armed only when none is pending, so at most one is
\* ever pending; and while one is pending camWasActive is false.
C19_OneTimerOnlyWhileInactive ==
    /\ [][ /\ loopEv'.timer # "rearmed"
           /\ ((loopEv'.timer = "armed") => (stopTimer = NoTimer)) ]_vars
    /\ [](stopTimer # NoTimer => ~camWasActive)

C19_Witness ==
    /\ stopTimer # NoTimer
    /\ ~camWasActive
    /\ ~active
    /\ mainPc = "probe"
    /\ Running
====
